---- MODULE Spec2Model ----
(***************************************************************************)
(* The agentic action loop of cua-browser: the Model Request Client        *)
(* (createResponse and its retry loop), the Action Executor (takeAction,   *)
(* takeComputerAction, takeFunctionAction) and the driving handlers.       *)
(*                                                                         *)
(* The repository holds the agent twice: as exported functions             *)
(* (src/app/api/cua/agent/agent.ts, variant "fn") and as class Agent       *)
(* (src/unnamed/part_004 and src/unnamed/part_001, variant "cls").         *)
(***************************************************************************)
EXTENDS Integers, Sequences, FiniteSets, TLC

\* ------------------------------------------------------------------------
\* Model Request Client: createResponse
\* ------------------------------------------------------------------------

VARIABLES
  crVariant,   \* "fn": createResponse of agent.ts; "cls": Agent.createResponse
  crPc,        \* "idle" | "fetch" | "backoff" | "done"
  script,      \* what the endpoint answers: script[n] answers the n-th request
  retries,     \* the retry counter of the running call
  backoff,     \* fetchWithRetry's backoff parameter (cls)
  requests,    \* HTTP requests issued by the call so far
  waits,       \* the setTimeout delays the call has waited, in order
  response,    \* status of the last response received (0: none yet)
  outcome,     \* "none" | "returned" | "threw"
  error        \* message of the error the call threw

crVars == <<crVariant, crPc, script, retries, backoff, requests, waits,
            response, outcome, error>>

\* Length of the endpoint's script of answers.
ScriptLen == 4

\* fetch() rejecting (a transport failure) is written as status 0.
NetworkError == 0

\* The answers of the endpoint: 200, a 4xx, two 5xx, and a transport failure.
Answers == {200, 400, 500, 503, NetworkError}

CrVariants == {"fn", "cls"}

\* response.ok: a status in 200..299.
IsOk(status) == status >= 200 /\ status <= 299

IsTransient(a) == a = NetworkError \/ a >= 500

\* The answer to the n-th request; past the script's end the last answer repeats.
Served(n) == IF n <= Len(script) THEN script[n] ELSE script[Len(script)]

\* let retries = 3 (agent.ts) and retries = 3, backoff = 300 (fetchWithRetry).
fnRetries == 3
clsRetries == 3
clsBackoff == 300

ErrRequestFailed == "Request failed with status"
ErrMaxRetries == "Max retries exceeded"
ErrFetch == "fetch failed"

\* agent.ts, one pass of the while loop's try/catch on answer a with the
\* counter at r: "return", "throw" (leaves the call) or "backoff".
\* The throw of line 117 is inside the try, so the catch of line 119 gets it.
fnAfterFetch_noRethrow(a, r) ==
  IF a # NetworkError /\ IsOk(a) THEN "return" ELSE "backoff"

fnAfterFetch(a, r) ==
  IF a # NetworkError /\ IsOk(a) THEN "return"
  ELSE IF a # NetworkError /\ a >= 500 THEN "backoff"
  ELSE IF r = 1 THEN "throw" ELSE "backoff"

\* The error the catch re-throws on the last pass.
fnThrown(a) == IF a = NetworkError THEN ErrFetch ELSE ErrRequestFailed

\* setTimeout(resolve, 1000 * (4 - retries))
fnDelay_constant(r) == 1000

fnDelay(r) == 1000 * (4 - r)

\* while (retries > 0)
fnLoops_once(r) == r > 1

fnLoops(r) == r > 0

\* fetchWithRetry on answer a with r retries left. Both throws of the try
\* block land in its catch, which retries while r > 0.
clsAfterFetch_extraRetry(a, r) ==
  IF a # NetworkError /\ IsOk(a) THEN "return"
  ELSE IF r >= 0 THEN "backoff" ELSE "throw"

clsAfterFetch(a, r) ==
  IF a # NetworkError /\ IsOk(a) THEN "return"
  ELSE IF a # NetworkError /\ a >= 500 /\ r > 0 THEN "backoff"
  ELSE IF r > 0 THEN "backoff"
  ELSE "throw"

clsThrown(a) == IF a = NetworkError THEN ErrFetch ELSE ErrRequestFailed

\* fetchWithRetry(url, options, retries - 1, backoff * 2)
clsNextBackoff(b) == b * 2

CrInit ==
  /\ crVariant \in CrVariants
  /\ crPc = "idle"
  /\ script = <<>>
  /\ retries = 0
  /\ backoff = 0
  /\ requests = 0
  /\ waits = <<>>
  /\ response = 0
  /\ outcome = "none"
  /\ error = ""

\* A call of createResponse, against an endpoint that will answer s.
createResponse(s) ==
  /\ crPc = "idle"
  /\ script' = s
  /\ retries' = IF crVariant = "fn" THEN fnRetries ELSE clsRetries
  /\ backoff' = IF crVariant = "fn" THEN 0 ELSE clsBackoff
  /\ crPc' = "fetch"
  /\ UNCHANGED <<crVariant, requests, waits, response, outcome, error>>

\* One attempt: fetch, then the try/catch around it.
fetch ==
  /\ crPc = "fetch"
  /\ LET a == Served(requests + 1)
         next == IF crVariant = "fn" THEN fnAfterFetch(a, retries)
                                     ELSE clsAfterFetch(a, retries)
     IN /\ requests' = requests + 1
        /\ response' = IF a = NetworkError THEN response ELSE a
        /\ crPc' = IF next = "backoff" THEN "backoff" ELSE "done"
        /\ outcome' = IF next = "return" THEN "returned"
                      ELSE IF next = "throw" THEN "threw" ELSE outcome
        /\ error' = IF next = "throw"
                    THEN (IF crVariant = "fn" THEN fnThrown(a) ELSE clsThrown(a))
                    ELSE error
  /\ UNCHANGED <<crVariant, script, retries, backoff, waits>>

\* The wait before the next attempt. agent.ts decrements and tests the loop
\* condition, falling out to "Max retries exceeded"; fetchWithRetry calls itself.
wait ==
  /\ crPc = "backoff"
  /\ IF crVariant = "fn"
     THEN /\ waits' = Append(waits, fnDelay(retries))
          /\ retries' = retries - 1
          /\ backoff' = backoff
          /\ IF fnLoops(retries - 1)
             THEN crPc' = "fetch" /\ UNCHANGED <<outcome, error>>
             ELSE crPc' = "done" /\ outcome' = "threw" /\ error' = ErrMaxRetries
     ELSE /\ waits' = Append(waits, backoff)
          /\ retries' = retries - 1
          /\ backoff' = clsNextBackoff(backoff)
          /\ crPc' = "fetch"
          /\ UNCHANGED <<outcome, error>>
  /\ UNCHANGED <<crVariant, script, requests, response>>

Scripts == [1..ScriptLen -> Answers]

\* ------------------------------------------------------------------------
\* Action Executor: takeAction, takeComputerAction, takeFunctionAction
\* ------------------------------------------------------------------------

VARIABLES
  agVariant,   \* "fn": agent.ts; "cls4": Agent of part_004; "cls1": Agent of part_001
  computer,    \* whether the agent holds a browser (dependencies.computer)
  ackPolicy,   \* the messages acknowledgeSafetyCheckCallback answers true to
  exPc,        \* takeAction's Promise.all: "idle" | "pending" | "resolved" | "rejected"
  batch,       \* the output items takeAction was called with
  tasks,       \* per item of the batch, its takeComputerAction/takeFunctionAction call
  browser,     \* the interactions with the browser session, in order
  asked,       \* the calls of acknowledgeSafetyCheckCallback: <<item index, message>>
  results,     \* what takeAction returned
  exError      \* the error takeAction threw

exVars == <<agVariant, computer, ackPolicy, exPc, batch, tasks, browser, asked,
            results, exError>>

\* The longest batch of several items.
MaxBatch == 2

AgVariants == {"fn", "cls4", "cls1"}

\* The primitive actions of a computer_call.
Primitives == {"click", "double_click", "scroll", "type", "wait", "move",
               "keypress", "drag", "goto", "back"}

\* The capabilities the browser session has by name (BasePlaywrightComputer).
Methods == Primitives \cup {"screenshot"}

\* Action types a model response may name; "hover" is on no browser.
ActionTypes == Methods \cup {"hover"}

\* Function tools a response may call; the browser has no "refresh".
FunctionNames == {"goto", "back", "refresh"}

Messages == {"m1", "m2"}

CheckLists == {<<>>, <<"m1">>, <<"m1", "m2">>}

\* functionItem.arguments: a JSON object, or text JSON.parse rejects.
ArgumentTexts == {"{\"url\":\"u\"}", "{url"}

NoAction == "-"

ComputerCalls ==
  [type : {"computer_call"}, action : ActionTypes,
   pending_safety_checks : CheckLists, name : {NoAction}, arguments : {NoAction}]

FunctionCalls ==
  [type : {"function_call"}, action : {NoAction},
   pending_safety_checks : {<<>>}, name : FunctionNames, arguments : ArgumentTexts]

OtherItems ==
  [type : {"message", "reasoning"}, action : {NoAction},
   pending_safety_checks : {<<>>}, name : {NoAction}, arguments : {NoAction}]

Items == ComputerCalls \cup FunctionCalls \cup OtherItems

\* The items batches of several items are drawn from.
CoreItems ==
  {it \in Items :
     /\ it.action \in {NoAction, "click", "hover"}
     /\ it.name \in {NoAction, "goto", "refresh"}
     /\ it.arguments # "{url"
     /\ Len(it.pending_safety_checks) <= 1}

\* The call_id the model gave the i-th item of a response.
CallId(i) == 100 + i

Batches ==
  {<<it>> : it \in Items}
    \cup UNION {[1..n -> CoreItems] : n \in 0..MaxBatch}

ErrNoComputer == "Computer not initialized"
ErrNoMethod == "Method not found on computer"
ErrTypeError == "TypeError"
ErrSyntax == "SyntaxError"
ErrCapability == "capability failed"
ErrScreenshot == "screenshot failed"
ErrSafety == "Safety check failed. Cannot continue with unacknowledged safety checks."

\* typeof computer[name] === "function"
HasMethod(name) == name \in Methods

\* acknowledgeSafetyCheckCallback(message)
acknowledgeSafetyCheckCallback_never(message) == FALSE

acknowledgeSafetyCheckCallback(message) == message \in ackPolicy

\* The policy of an agent created without one: () => true
DefaultPolicy == Messages

\* The for loop over pendingChecks: the index of the first check the callback
\* rejects, 0 when it acknowledges them all.
FirstRejected_none(checks) == 0

FirstRejected(checks) ==
  LET bad == {k \in 1..Len(checks) : ~acknowledgeSafetyCheckCallback(checks[k])}
  IN IF bad = {} THEN 0 ELSE CHOOSE k \in bad : \A j \in bad : k <= j

\* The callback is called on the checks up to the first one it rejects.
ChecksAsked_all(i, checks) == [k \in 1..Len(checks) |-> <<i, checks[k]>>]

ChecksAsked(i, checks) ==
  LET n == IF FirstRejected(checks) = 0 THEN Len(checks) ELSE FirstRejected(checks)
  IN [k \in 1..n |-> <<i, checks[k]>>]

\* JSON.parse(functionItem.arguments) succeeds
Parses(text) == text = "{\"url\":\"u\"}"

\* takeAction's dispatch: which items get an executor call.
IsActionable_computerOnly(item) == item.type = "computer_call"

IsActionable(item) == item.type \in {"computer_call", "function_call"}

\* The value takeComputerAction returns.
computerCallOutput_stale(i, item, image) ==
  [type |-> "computer_call_output",
   call_id |-> CallId(i),
   acknowledged_safety_checks |-> item.pending_safety_checks,
   output |-> [type |-> "input_image", image_url |-> 0]]

computerCallOutput_noChecks(i, item, image) ==
  [type |-> "computer_call_output",
   call_id |-> CallId(i),
   acknowledged_safety_checks |-> <<>>,
   output |-> [type |-> "input_image", image_url |-> image]]

computerCallOutput(i, item, image) ==
  [type |-> "computer_call_output",
   call_id |-> CallId(i),
   acknowledged_safety_checks |-> item.pending_safety_checks,
   output |-> [type |-> "input_image", image_url |-> image]]

\* The value takeFunctionAction returns.
functionCallOutput_noId(i, item) ==
  [type |-> "function_call_output", call_id |-> 0, output |-> "success"]

functionCallOutput(i, item) ==
  [type |-> "function_call_output", call_id |-> CallId(i), output |-> "success"]

NoTask == [pc |-> "none", err |-> "", image |-> 0]

\* An executor call from its start to its first await: takeComputerAction up to
\* method.apply(...), takeFunctionAction up to method.apply(...) or its return.
Started_task(item) ==
  IF item.type = "computer_call"
  THEN IF ~computer THEN [pc |-> "threw", err |-> ErrNoComputer, image |-> 0]
       ELSE IF HasMethod(item.action) THEN [pc |-> "invoke", err |-> "", image |-> 0]
       ELSE IF agVariant = "cls1" THEN [pc |-> "threw", err |-> ErrNoMethod, image |-> 0]
       ELSE [pc |-> "threw", err |-> ErrTypeError, image |-> 0]
  ELSE IF item.type = "function_call"
  THEN IF ~Parses(item.arguments) THEN [pc |-> "threw", err |-> ErrSyntax, image |-> 0]
       ELSE IF computer /\ HasMethod(item.name)
            THEN [pc |-> "invoke", err |-> "", image |-> 0]
            ELSE [pc |-> "returned", err |-> "", image |-> 0]
  ELSE NoTask

\* The capability an executor call invokes.
Capability(item) == IF item.type = "computer_call" THEN item.action ELSE item.name

Event(i, cap, role, phase) == [task |-> i, cap |-> cap, role |-> role, phase |-> phase]

RECURSIVE CallEvents(_, _, _)
\* The browser calls the executor calls of items k..Len(b) begin, in item order.
CallEvents(b, t, k) ==
  IF k > Len(b) THEN <<>>
  ELSE (IF t[k].pc = "invoke"
        THEN <<Event(k, Capability(b[k]), "action", "call")>> ELSE <<>>)
       \o CallEvents(b, t, k + 1)

Dispatched(b, t) == {i \in 1..Len(b) : t[i].pc # "none"}

\* The output of a call that returned.
OutputOf(i, item, task) ==
  IF item.type = "computer_call" THEN computerCallOutput(i, item, task.image)
  ELSE functionCallOutput(i, item)

RECURSIVE Collect(_, _, _)
\* Promise.all's value: the outputs of the executor calls, in dispatch order.
Collect(b, t, k) ==
  IF k > Len(b) THEN <<>>
  ELSE (IF t[k].pc = "none" THEN <<>> ELSE <<OutputOf(k, b[k], t[k])>>)
       \o Collect(b, t, k + 1)

\* The first executor call (in dispatch order) that has thrown.
FirstThrown(b, t) ==
  CHOOSE i \in Dispatched(b, t) :
    /\ t[i].pc = "threw"
    /\ \A j \in Dispatched(b, t) : t[j].pc = "threw" => i <= j

ExInit ==
  /\ agVariant \in AgVariants
  /\ computer \in BOOLEAN
  /\ ackPolicy \in SUBSET Messages
  /\ exPc = "idle"
  /\ batch = <<>>
  /\ tasks = <<>>
  /\ browser = <<>>
  /\ asked = <<>>
  /\ results = <<>>
  /\ exError = ""

\* takeAction(output): the for loop starts one executor call per computer_call
\* and function_call item, each running to its first await; then Promise.all.
takeAction(output) ==
  /\ exPc = "idle"
  /\ batch' = output
  /\ LET t == [i \in 1..Len(output) |->
                 IF IsActionable(output[i]) THEN Started_task(output[i]) ELSE NoTask]
     IN /\ tasks' = t
        /\ browser' = browser \o CallEvents(output, t, 1)
        /\ IF \E i \in Dispatched(output, t) : t[i].pc = "threw"
           THEN /\ exPc' = "rejected"
                /\ exError' = t[FirstThrown(output, t)].err
                /\ results' = results
           ELSE IF \A i \in Dispatched(output, t) : t[i].pc = "returned"
           THEN /\ exPc' = "resolved"
                /\ results' = Collect(output, t, 1)
                /\ exError' = exError
           ELSE /\ exPc' = "pending"
                /\ UNCHANGED <<results, exError>>
  /\ UNCHANGED <<agVariant, computer, ackPolicy, asked>>

\* Promise.all once executor call i has moved on, the calls being t: rejected by
\* the first call that throws, resolved when the last call has returned. A
\* rejected Promise.all stays rejected while the other calls run on.
PromiseAll_partial(t, i) ==
  IF exPc # "pending"
  THEN [pc |-> exPc, results |-> results, error |-> exError]
  ELSE IF \A j \in Dispatched(batch, t) : t[j].pc \in {"returned", "threw"}
  THEN [pc |-> "resolved", results |-> Collect(batch, t, 1), error |-> exError]
  ELSE [pc |-> "pending", results |-> results, error |-> exError]

PromiseAll(t, i) ==
  IF exPc # "pending"
  THEN [pc |-> exPc, results |-> results, error |-> exError]
  ELSE IF t[i].pc = "threw"
  THEN [pc |-> "rejected", results |-> results, error |-> t[i].err]
  ELSE IF \A j \in Dispatched(batch, t) : t[j].pc = "returned"
  THEN [pc |-> "resolved", results |-> Collect(batch, t, 1), error |-> exError]
  ELSE [pc |-> "pending", results |-> results, error |-> exError]

\* The image a screenshot yields: the state of the session after the
\* interactions so far.
Screenshot(log) == Len(log)

\* The awaited capability of executor call i completes (ok) or throws.
\* takeComputerAction goes on to computer.screenshot(); takeFunctionAction returns.
capabilityEnds(i, ok) ==
  /\ i \in 1..Len(tasks)
  /\ tasks[i].pc = "invoke"
  /\ LET item == batch[i]
         cap == Capability(item)
         t == [tasks EXCEPT ![i] =
                 IF ~ok THEN [pc |-> "threw", err |-> ErrCapability, image |-> 0]
                 ELSE IF item.type = "computer_call"
                 THEN [pc |-> "shot", err |-> "", image |-> 0]
                 ELSE [pc |-> "returned", err |-> "", image |-> 0]]
         p == PromiseAll(t, i)
     IN /\ tasks' = t
        /\ browser' =
             IF ~ok THEN Append(browser, Event(i, cap, "action", "fail"))
             ELSE IF item.type = "computer_call"
             THEN browser \o <<Event(i, cap, "action", "done"),
                               Event(i, "screenshot", "feedback", "call")>>
             ELSE Append(browser, Event(i, cap, "action", "done"))
        /\ exPc' = p.pc
        /\ results' = p.results
        /\ exError' = p.error
  /\ UNCHANGED <<agVariant, computer, ackPolicy, batch, asked>>

\* The awaited screenshot of takeComputerAction call i completes (ok) or throws;
\* then the safety checks are walked and the call returns or throws.
screenshotEnds(i, ok) ==
  /\ i \in 1..Len(tasks)
  /\ tasks[i].pc = "shot"
  /\ LET item == batch[i]
         checks == item.pending_safety_checks
         log == Append(browser, Event(i, "screenshot", "feedback",
                                      IF ok THEN "done" ELSE "fail"))
         t == [tasks EXCEPT ![i] =
                 IF ~ok THEN [pc |-> "threw", err |-> ErrScreenshot, image |-> 0]
                 ELSE IF FirstRejected(checks) # 0
                 THEN [pc |-> "threw", err |-> ErrSafety, image |-> Screenshot(log)]
                 ELSE [pc |-> "returned", err |-> "", image |-> Screenshot(log)]]
         p == PromiseAll(t, i)
     IN /\ tasks' = t
        /\ browser' = log
        /\ asked' = IF ok THEN asked \o ChecksAsked(i, checks) ELSE asked
        /\ exPc' = p.pc
        /\ results' = p.results
        /\ exError' = p.error
  /\ UNCHANGED <<agVariant, computer, ackPolicy, batch>>

\* ------------------------------------------------------------------------
\* Driving handlers: start (POST of part_000; agent.ts:340 with class Agent),
\* step and action (POST of part_001)
\* ------------------------------------------------------------------------

VARIABLES
  handler,         \* "start" | "step" | "action"
  hVariant,        \* the agent the handler drives: "fn" (agent.ts) or "cls" (class Agent)
  tools,           \* the agent's tool manifest
  hPc,             \* the handler's position
  body,            \* the request body
  connected,       \* computer.connect() has completed
  lastResponseId,  \* the agent's lastResponseId
  sent,            \* the model requests issued, in order
  received,        \* the model responses received, in order
  stepResult,      \* stepResult / fakeAction (start), result (step)
  actions,         \* actions (start), screenshotAction (step)
  fakeStep,        \* fakeStep (start): <<>> while unset, else <<its value>>
  nextStep,        \* nextStep (start)
  executed,        \* the outputs takeAction was run on, in order
  reply            \* the HTTP response: [status, json]

hVars == <<handler, hVariant, tools, hPc, body, connected, lastResponseId, sent, received,
           stepResult, actions, fakeStep, nextStep, executed, reply>>

\* The most model requests followed in one handler run.
MaxModelCalls == 4

\* previousResponseId === undefined; no previous_response_id in a request.
Undefined == 0

\* The responseId a client sends to the step handler: one of an earlier run.
PriorResponseId == 9

\* What a model response's output holds, item by item.
Shapes ==
  {<<"message">>, <<"reasoning">>, <<"click">>, <<"screenshot">>, <<"function">>,
   <<"click", "function">>, <<"message", "click">>, <<"reasoning", "reasoning">>,
   <<"click", "screenshot">>}

\* The i-th item of the output of response id, of kind k.
MkItem(k, id, i) ==
  [type |-> IF k \in {"click", "screenshot"} THEN "computer_call"
            ELSE IF k = "function" THEN "function_call" ELSE k,
   action |-> IF k \in {"click", "screenshot"} THEN k
              ELSE IF k = "function" THEN "goto" ELSE NoAction,
   call_id |-> IF k \in {"message", "reasoning"} THEN 0 ELSE 10 * id + i]

MkOutput(shape, id) == [i \in 1..Len(shape) |-> MkItem(shape[i], id, i)]

\* A conversation entry {role, content}.
Text(role, content) == [type |-> role, call_id |-> 0, content |-> content]

\* An action result, as an input item of the next request.
ResultItem(item) ==
  [type |-> IF item.type = "computer_call" THEN "computer_call_output"
            ELSE "function_call_output",
   call_id |-> item.call_id,
   content |-> IF item.type = "computer_call" THEN "input_image" ELSE "success"]

Outputs_none(output) == <<>>

RECURSIVE Outputs(_)
\* What takeAction(output) returns when no executor call throws.
Outputs(output) ==
  IF output = <<>> THEN <<>>
  ELSE (IF IsActionable(Head(output)) THEN <<ResultItem(Head(output))>> ELSE <<>>)
       \o Outputs(Tail(output))

\* items.filter(item => item.type === "computer_call_output")
OnlyComputerOutputs(items) ==
  SelectSeq(items, LAMBDA x : x.type = "computer_call_output")

\* items.filter(item => item.type != "message")
NoMessages(items) == SelectSeq(items, LAMBDA x : x.type # "message")

\* output.length > 0 && output.find(item => item.type === "message")
HasMessage_never(output) == FALSE

HasMessage(output) == \E i \in 1..Len(output) : output[i].type = "message"

\* The first computer_call of the output is a screenshot action.
FirstComputerCallIsScreenshot_any(output) ==
  \E i \in 1..Len(output) :
    output[i].type = "computer_call" /\ output[i].action = "screenshot"

FirstComputerCallIsScreenshot(output) ==
  /\ \E i \in 1..Len(output) : output[i].type = "computer_call"
  /\ LET i == CHOOSE i \in 1..Len(output) :
                /\ output[i].type = "computer_call"
                /\ \A j \in 1..(i - 1) : output[j].type # "computer_call"
     IN output[i].action = "screenshot"

\* output.length == 1 && output.find(item => item.type === "reasoning")
OnlyReasoning_always(output) == TRUE

OnlyReasoning(output) == Len(output) = 1 /\ output[1].type = "reasoning"

\* getAction's previousResponseId: agent.ts defaults an undefined argument to
\* dependencies.lastResponseId; class Agent takes the argument as it is.
Previous_stale(previousResponseId) == lastResponseId

Previous(previousResponseId) ==
  IF hVariant = "fn" /\ previousResponseId = Undefined THEN lastResponseId
  ELSE previousResponseId

\* computer.dimensions and computer.environment of the browser session.
Dimensions == <<1024, 768>>

Environment == "browser"

\* parameters: {} of a function tool.
NoParameters == <<>>

\* The tool manifest createAgent / the Agent constructor builds.
Manifest ==
  <<[type |-> "computer-preview",
     display_width |-> Dimensions[1],
     display_height |-> Dimensions[2],
     environment |-> Environment],
    [type |-> "function", name |-> "back", parameters |-> NoParameters,
     strict |-> FALSE],
    [type |-> "function", name |-> "goto",
     parameters |-> [type |-> "object", properties |-> {"url"},
                     additionalProperties |-> FALSE, required |-> <<"url">>],
     strict |-> FALSE]>>

\* The request getAction(inputItems, previousResponseId) sends.
Request_reembed(inputItems, previousResponseId) ==
  [input |-> (IF sent = <<>> THEN <<>> ELSE sent[Len(sent)].input) \o inputItems,
   tools |-> tools,
   truncation |-> "auto",
   previous_response_id |-> Previous(previousResponseId)]

Request_noTruncation(inputItems, previousResponseId) ==
  [input |-> inputItems,
   tools |-> tools,
   truncation |-> "disabled",
   previous_response_id |-> Previous(previousResponseId)]

Request(inputItems, previousResponseId) ==
  [input |-> inputItems,
   tools |-> tools,
   truncation |-> "auto",
   previous_response_id |-> Previous(previousResponseId)]

NoResult == [output |-> <<>>, responseId |-> Undefined]

NoReply == [status |-> 0, json |-> <<>>]

\* catch (error): NextResponse.json({success: false, ...}, {status: 500})
Fails_swallowed ==
  /\ hPc' = "done"
  /\ reply' = [status |-> 200, json |-> <<>>]

Fails ==
  /\ hPc' = "done"
  /\ reply' = [status |-> 500, json |-> <<>>]

\* NextResponse.json(json)
Replies(json) ==
  /\ hPc' = "done"
  /\ reply' = [status |-> 200, json |-> json]

\* await getAction(inputItems, previousResponseId): the request goes out; the
\* model answers an output of the given shape under a fresh id (ok), or
\* createResponse throws.
getAction(inputItems, previousResponseId, ok, shape) ==
  /\ Len(sent) < MaxModelCalls
  /\ sent' = Append(sent, Request(inputItems, previousResponseId))
  /\ lastResponseId' = IF hVariant = "fn" THEN Previous(previousResponseId)
                       ELSE lastResponseId
  /\ IF ok
     THEN LET id == Len(received) + 1
              r == [output |-> MkOutput(shape, id), responseId |-> id]
          IN received' = Append(received, r)
     ELSE /\ received' = received
          /\ Fails

\* The value an awaited getAction call that returned evaluates to.
Returned == received'[Len(received')]

Bodies(h) ==
  IF h = "start"
  THEN [sessionId : BOOLEAN, userInput : BOOLEAN, urlMatch : BOOLEAN,
        responseId : {Undefined}, output : {<<>>}]
  ELSE IF h = "step"
  THEN [sessionId : BOOLEAN, userInput : {TRUE}, urlMatch : {FALSE},
        responseId : {Undefined, PriorResponseId}, output : {<<>>}]
  ELSE [sessionId : BOOLEAN, userInput : {TRUE}, urlMatch : {FALSE},
        responseId : {Undefined},
        output : {MkOutput(shape, PriorResponseId) : shape \in Shapes}]

HInit ==
  /\ handler \in {"start", "step", "action"}
  /\ hVariant \in (IF handler = "start" THEN {"fn", "cls"} ELSE {"fn"})
  /\ tools = Manifest
  /\ body \in Bodies(handler)
  /\ (~body.userInput => ~body.urlMatch)
  /\ hPc = "validate"
  /\ connected = FALSE
  /\ lastResponseId = Undefined
  /\ sent = <<>>
  /\ received = <<>>
  /\ stepResult = NoResult
  /\ actions = <<>>
  /\ fakeStep = <<>>
  /\ nextStep = <<>>
  /\ executed = <<>>
  /\ reply = NoReply

\* if (!sessionId || !userInput) / if (!sessionId): status 400
validate_skips ==
  /\ hPc = "validate"
  /\ hPc' = IF handler = "step" THEN "first" ELSE "connect"
  /\ reply' = reply
  /\ UNCHANGED <<handler, hVariant, tools, body, connected, lastResponseId, sent, received,
                 stepResult, actions, fakeStep, nextStep, executed>>

validate ==
  /\ hPc = "validate"
  /\ IF ~body.sessionId \/ ~body.userInput
     THEN /\ hPc' = "done"
          /\ reply' = [status |-> 400, json |-> <<>>]
     ELSE /\ hPc' = IF handler = "step" THEN "first" ELSE "connect"
          /\ reply' = reply
  /\ UNCHANGED <<handler, hVariant, tools, body, connected, lastResponseId, sent, received,
                 stepResult, actions, fakeStep, nextStep, executed>>

\* await computer.connect()
connect(ok) ==
  /\ hPc = "connect"
  /\ IF ok
     THEN /\ connected' = TRUE
          /\ hPc' = IF handler = "start" THEN "first" ELSE "take"
          /\ reply' = reply
     ELSE /\ connected' = connected
          /\ Fails
  /\ UNCHANGED <<handler, hVariant, tools, body, lastResponseId, sent, received,
                 stepResult, actions, fakeStep, nextStep, executed>>

\* initialMessages: the developer prompt and the first user turn.
initialMessages_withInput ==
  <<Text("developer", "You are a helpful assistant"), Text("user", "userInput")>>

initialMessages ==
  <<Text("developer", "You are a helpful assistant"),
    Text("user", IF body.urlMatch THEN "What page are we on?" ELSE "userInput")>>

\* start: let stepResult = await getAction(initialMessages, undefined); a
\* response with a message is returned as the only turn result.
startFirst(ok, shape) ==
  /\ handler = "start"
  /\ hPc = "first"
  /\ getAction(initialMessages, Undefined, ok, shape)
  /\ stepResult' = (IF ok THEN Returned ELSE stepResult)
  /\ ok => IF HasMessage(stepResult'.output)
           THEN Replies(<<stepResult'>>)
           ELSE hPc' = "take" /\ reply' = reply
  /\ UNCHANGED <<handler, hVariant, tools, body, connected, actions, fakeStep, nextStep,
                 executed>>

\* start: const actions = await takeAction(stepResult.output); with no URL in
\* the input and no action the for loop is empty and nextStep is returned.
startTake(ok) ==
  /\ handler = "start"
  /\ hPc = "take"
  /\ IF ok
     THEN /\ executed' = Append(executed, stepResult.output)
          /\ actions' = Outputs(stepResult.output)
          /\ IF body.urlMatch THEN hPc' = "loopGet" /\ reply' = reply
             ELSE IF Outputs(stepResult.output) = <<>> THEN Replies(<<>>)
             ELSE hPc' = "each" /\ reply' = reply
     ELSE /\ UNCHANGED <<executed, actions>>
          /\ Fails
  /\ UNCHANGED <<handler, hVariant, tools, body, connected, lastResponseId, sent, received,
                 stepResult, fakeStep, nextStep>>

\* start, URL path: fakeAction = await getAction(<fakeStep or actions>.filter(
\* computer_call_output), <responseId of the last response>); stepResult = fakeAction
startLoopGet(ok, shape) ==
  /\ handler = "start"
  /\ hPc = "loopGet"
  /\ getAction(OnlyComputerOutputs(IF fakeStep # <<>> THEN fakeStep[1] ELSE actions),
               stepResult.responseId, ok, shape)
  /\ stepResult' = (IF ok THEN Returned ELSE stepResult)
  /\ ok => /\ hPc' = IF HasMessage(stepResult'.output) THEN "final" ELSE "loopTake"
           /\ reply' = reply
  /\ UNCHANGED <<handler, hVariant, tools, body, connected, actions, fakeStep, nextStep,
                 executed>>

\* start, URL path: fakeStep = await takeAction(fakeAction.output)
startLoopTake(ok) ==
  /\ handler = "start"
  /\ hPc = "loopTake"
  /\ IF ok
     THEN /\ executed' = Append(executed, stepResult.output)
          /\ fakeStep' = <<Outputs(stepResult.output)>>
          /\ hPc' = "loopGet"
          /\ reply' = reply
     ELSE /\ UNCHANGED <<executed, fakeStep>>
          /\ Fails
  /\ UNCHANGED <<handler, hVariant, tools, body, connected, lastResponseId, sent, received,
                 stepResult, actions, nextStep>>

\* start, URL path: the request with "Let's continue." and the user's input.
startFinal(ok, shape) ==
  /\ handler = "start"
  /\ hPc = "final"
  /\ getAction(<<Text("user", "Let's continue."), Text("user", "userInput")>>,
               stepResult.responseId, ok, shape)
  /\ stepResult' = (IF ok THEN Returned ELSE stepResult)
  /\ ok => Replies(<<stepResult'>>)
  /\ UNCHANGED <<handler, hVariant, tools, body, connected, actions, fakeStep, nextStep,
                 executed>>

\* start, no URL: for (const action of actions) nextStep.push(await
\* getAction([action], stepResult.responseId)); stepResult stays the first response.
startEach(ok, shape) ==
  /\ handler = "start"
  /\ hPc = "each"
  /\ LET k == Len(nextStep) + 1
     IN /\ getAction(<<actions[k]>>, stepResult.responseId, ok, shape)
        /\ ok => /\ nextStep' = Append(nextStep, Returned)
                 /\ IF k = Len(actions)
                    THEN Replies(Append(nextStep, Returned))
                    ELSE hPc' = "each" /\ reply' = reply
        /\ ~ok => nextStep' = nextStep
  /\ UNCHANGED <<handler, hVariant, tools, body, connected, stepResult, actions, fakeStep,
                 executed>>

\* step: let result = await getAction(input, responseId)
stepFirst(ok, shape) ==
  /\ handler = "step"
  /\ hPc = "first"
  /\ getAction(<<Text("user", "input")>>, body.responseId, ok, shape)
  /\ stepResult' = (IF ok THEN Returned ELSE stepResult)
  /\ ok => /\ hPc' = IF FirstComputerCallIsScreenshot(stepResult'.output)
                     THEN "connect" ELSE "reasoning"
           /\ reply' = reply
  /\ UNCHANGED <<handler, hVariant, tools, body, connected, actions, fakeStep, nextStep,
                 executed>>

\* step: const screenshotAction = await takeAction(result.output)
stepTake(ok) ==
  /\ handler = "step"
  /\ hPc = "take"
  /\ IF ok
     THEN /\ executed' = Append(executed, stepResult.output)
          /\ actions' = Outputs(stepResult.output)
          /\ hPc' = "followUp"
          /\ reply' = reply
     ELSE /\ UNCHANGED <<executed, actions>>
          /\ Fails
  /\ UNCHANGED <<handler, hVariant, tools, body, connected, lastResponseId, sent, received,
                 stepResult, fakeStep, nextStep>>

\* step: result = await getAction(screenshotAction.filter(type != "message"),
\* result.responseId)
stepFollowUp(ok, shape) ==
  /\ handler = "step"
  /\ hPc = "followUp"
  /\ getAction(NoMessages(actions), stepResult.responseId, ok, shape)
  /\ stepResult' = (IF ok THEN Returned ELSE stepResult)
  /\ ok => hPc' = "reasoning" /\ reply' = reply
  /\ UNCHANGED <<handler, hVariant, tools, body, connected, actions, fakeStep, nextStep,
                 executed>>

\* step: while the result is a single reasoning item, ask again with
\* "Please continue with the task."
stepRetry(ok, shape) ==
  /\ handler = "step"
  /\ hPc = "reasoning"
  /\ OnlyReasoning(stepResult.output)
  /\ getAction(<<Text("user", "Please continue with the task.")>>,
               stepResult.responseId, ok, shape)
  /\ stepResult' = (IF ok THEN Returned ELSE stepResult)
  /\ ok => hPc' = "reasoning" /\ reply' = reply
  /\ UNCHANGED <<handler, hVariant, tools, body, connected, actions, fakeStep, nextStep,
                 executed>>

\* step: return NextResponse.json([result])
stepReply ==
  /\ handler = "step"
  /\ hPc = "reasoning"
  /\ ~OnlyReasoning(stepResult.output)
  /\ Replies(<<stepResult>>)
  /\ UNCHANGED <<handler, hVariant, tools, body, connected, lastResponseId, sent, received,
                 stepResult, actions, fakeStep, nextStep, executed>>

\* action: const result = await takeAction(output.output); return it
actionTake(ok) ==
  /\ handler = "action"
  /\ hPc = "take"
  /\ IF ok
     THEN /\ executed' = Append(executed, body.output)
          /\ actions' = Outputs(body.output)
          /\ Replies(Outputs(body.output))
     ELSE /\ UNCHANGED <<executed, actions>>
          /\ Fails
  /\ UNCHANGED <<handler, hVariant, tools, body, connected, lastResponseId, sent, received,
                 stepResult, fakeStep, nextStep>>

\* ------------------------------------------------------------------------
\* One agent and its callers: getAction called with any arguments, in any order
\* ------------------------------------------------------------------------

VARIABLES
  called           \* the getAction calls made: arguments and the id returned

\* The most getAction calls followed on one agent.
MaxCalls == 3

\* inputItems a caller passes.
InputLists == {<<Text("user", "a")>>, <<Text("user", "b")>>}

\* previousResponseId a caller passes: none, the id of an earlier conversation,
\* or the id the agent's last response carried.
Tokens == {Undefined, PriorResponseId} \cup {stepResult.responseId}

AgentInit ==
  /\ handler = "agent"
  /\ hVariant \in {"fn", "cls"}
  /\ tools = Manifest
  /\ hPc = "rest"
  /\ body = [sessionId |-> FALSE, userInput |-> FALSE, urlMatch |-> FALSE,
             responseId |-> Undefined, output |-> <<>>]
  /\ connected = FALSE
  /\ lastResponseId = Undefined
  /\ sent = <<>>
  /\ received = <<>>
  /\ stepResult = NoResult
  /\ actions = <<>>
  /\ fakeStep = <<>>
  /\ nextStep = <<>>
  /\ executed = <<>>
  /\ reply = NoReply
  /\ called = <<>>

\* A caller awaits getAction(inputItems, previousResponseId) on the agent; the
\* call returns {output, responseId} or throws to the caller.
callGetAction(inputItems, previousResponseId, ok) ==
  /\ handler = "agent"
  /\ Len(called) < MaxCalls
  /\ getAction(inputItems, previousResponseId, ok, <<"message">>)
  /\ stepResult' = (IF ok THEN Returned ELSE stepResult)
  /\ ok => hPc' = hPc /\ reply' = reply
  /\ called' = Append(called,
                 [inputItems |-> inputItems,
                  previousResponseId |-> previousResponseId,
                  responseId |-> IF ok THEN stepResult'.responseId ELSE Undefined])
  /\ UNCHANGED <<handler, hVariant, tools, body, connected, actions, fakeStep, nextStep,
                 executed>>

\* ------------------------------------------------------------------------
\* Argument passing of takeComputerAction and takeFunctionAction
\* ------------------------------------------------------------------------

VARIABLES
  argKind,     \* "computer" (an action object) or "function" (decoded arguments)
  argObject,   \* the object, as its fields in the order of the JSON text
  applied      \* what method.apply was given: [done, args]

argVars == <<argKind, argObject, applied>>

\* The most fields of an object.
MaxFields == 3

\* Field names of a computer_call action; "type" is the discriminator.
ActionKeys == {"type", "x", "y", "button"}

\* Property names of a function_call's arguments; "0" and "1" are integer-like.
ArgumentKeys == {"url", "1", "0"}

FieldValues == {"a", "b"}

\* A key JavaScript treats as an array index.
IsIndex(key) == key \in {"0", "1"}

IndexOf(key) == IF key = "0" THEN 0 ELSE 1

\* The objects over a set of keys: no key twice.
ObjectsOver(keys) ==
  UNION {{o \in [1..n -> [key : keys, value : FieldValues]] :
            \A i \in 1..n : \A j \in 1..n : o[i].key = o[j].key => i = j}
         : n \in 0..MaxFields}

\* Object.entries(obj): integer-like keys in ascending order, then the other
\* keys in insertion order.
ObjectEntries(obj) ==
  SortSeq(SelectSeq(obj, LAMBDA f : IsIndex(f.key)),
          LAMBDA f, g : IndexOf(f.key) < IndexOf(g.key))
    \o SelectSeq(obj, LAMBDA f : ~IsIndex(f.key))

\* Object.values(obj)
ObjectValues(obj) ==
  LET e == ObjectEntries(obj) IN [i \in 1..Len(e) |-> e[i].value]

\* Object.fromEntries(Object.entries(action).filter(([key]) => key !== "type"))
actionArgs_keepType(action) == ObjectEntries(action)

actionArgs(action) ==
  SelectSeq(ObjectEntries(action), LAMBDA f : f.key # "type")

NotApplied == [done |-> FALSE, args |-> <<>>]

ArgsInit ==
  /\ argKind \in {"computer", "function"}
  /\ argObject \in (IF argKind = "computer" THEN ObjectsOver(ActionKeys)
                    ELSE ObjectsOver(ArgumentKeys))
  /\ applied = NotApplied

\* takeComputerAction: method.apply(computer, Object.values(actionArgs))
applyAction ==
  /\ argKind = "computer"
  /\ ~applied.done
  /\ applied' = [done |-> TRUE, args |-> ObjectValues(actionArgs(argObject))]
  /\ UNCHANGED <<argKind, argObject>>

\* takeFunctionAction: method.apply(computer, Object.values(args))
applyFunction ==
  /\ argKind = "function"
  /\ ~applied.done
  /\ applied' = [done |-> TRUE, args |-> ObjectValues(argObject)]
  /\ UNCHANGED <<argKind, argObject>>

\* ------------------------------------------------------------------------
\* The browser session: BasePlaywrightComputer (base_playwright.ts)
\* ------------------------------------------------------------------------

VARIABLES
  bConn,       \* connect(): "none" | "connecting" | "connected" | "failed"
  bBrowser,    \* this._browser is set
  bPage,       \* this._page is set
  bDisc,       \* disconnect(): [called, hadBrowser, closes]
  bCall,       \* the capability call under way: its name, arguments, and
               \* whether the page was set when it was made
  bPc,         \* "idle" | "running" | "ended"
  bDone,       \* how many page interactions of the call have completed
  pageLog,     \* the interactions issued on the page, in order
  bError       \* the error the call threw, "" if none

brVars == <<bConn, bBrowser, bPage, bDisc, bCall, bPc, bDone, pageLog, bError>>

\* The most keys of a keypress.
MaxKeys == 2

\* The most points of a drag path.
MaxPath == 2

\* Number.NaN
NaN == -1

ErrNoPage == "Page not initialized"
ErrInvalidXY == "Invalid x or y coordinate"
ErrPlaywright == "playwright call failed"

\* A coordinate as the caller passes it: a number or a string.
Number(n) == [isString |-> FALSE, num |-> n, text |-> ""]

String(t) == [isString |-> TRUE, num |-> 0, text |-> t]

\* parseInt(text, 10): the leading integer of the text, NaN if it has none.
parseInt_zero(text) ==
  IF text = "7" THEN 7 ELSE IF text = "12px" THEN 12 ELSE 0

parseInt(text) ==
  IF text = "7" THEN 7 ELSE IF text = "12px" THEN 12 ELSE NaN

\* typeof x === 'string' ? parseInt(x, 10) : x
Parsed(c) == IF c.isString THEN parseInt(c.text) ELSE c.num

\* key.toLowerCase()
ToLowerCase(key) ==
  IF key = "CTRL" THEN "ctrl" ELSE IF key = "Shift" THEN "shift" ELSE key

\* HOTKEYS[k], "" when k is no hotkey.
HOTKEYS(k) ==
  IF k = "alt" THEN "Alt"
  ELSE IF k \in {"ctrl", "control"} THEN "Control"
  ELSE IF k = "shift" THEN "Shift"
  ELSE IF k \in {"meta", "command", "win"} THEN "Meta"
  ELSE ""

\* CUA_KEY_TO_PLAYWRIGHT_KEY[k] || key, on the keys of the model.
MappedKey(key) ==
  LET k == ToLowerCase(key)
  IN IF k = "enter" THEN "Enter"
     ELSE IF k = "ctrl" THEN "Control"
     ELSE IF k = "shift" THEN "Shift"
     ELSE key

\* One interaction on the page.
Op(dev, op, a, b, key) == [dev |-> dev, op |-> op, a |-> a, b |-> b, key |-> key]

KeyNames == {"CTRL", "Shift", "a", "enter"}

Points == {<<1, 1>>, <<2, 2>>}

Buttons == {"left", "right", "wheel"}

XValues == {Number(5), Number(NaN), String("7"), String("12px"), String("abc")}

YValues == {Number(9), String("abc")}

Call(name, button, x, y, keys, path) ==
  [name |-> name, button |-> button, x |-> x, y |-> y, keys |-> keys, path |-> path]

\* The capability calls followed.
Calls ==
  {Call(n, "left", Number(5), Number(9), <<>>, <<>>) :
     n \in {"screenshot", "double_click", "scroll", "type", "wait", "move",
            "goto", "back"}}
  \cup {Call("click", b, x, y, <<>>, <<>>) : b \in Buttons, x \in XValues, y \in YValues}
  \cup {Call("keypress", "left", Number(5), Number(9), k, <<>>) :
          k \in UNION {[1..n -> KeyNames] : n \in 0..MaxKeys}}
  \cup {Call("drag", "left", Number(5), Number(9), <<>>, q) :
          q \in UNION {[1..n -> Points] : n \in 0..MaxPath}}

\* click: mouse.wheel for the button "wheel", mouse.click otherwise.
clickPlan(c) ==
  IF c.button = "wheel"
  THEN <<Op("mouse", "wheel", Parsed(c.x), Parsed(c.y), "")>>
  ELSE <<Op("mouse", "click", Parsed(c.x), Parsed(c.y), c.button)>>

\* keypress: with a hotkey first, the modifier down, the other keys pressed,
\* the modifier up; otherwise every key, mapped, pressed.
keypressPlan_noRelease(keys) ==
  IF HOTKEYS(ToLowerCase(keys[1])) # ""
  THEN <<Op("keyboard", "down", 0, 0, HOTKEYS(ToLowerCase(keys[1])))>>
       \o [i \in 1..(Len(keys) - 1) |-> Op("keyboard", "press", 0, 0, keys[i + 1])]
  ELSE [i \in 1..Len(keys) |-> Op("keyboard", "press", 0, 0, MappedKey(keys[i]))]

keypressPlan(keys) ==
  IF HOTKEYS(ToLowerCase(keys[1])) # ""
  THEN <<Op("keyboard", "down", 0, 0, HOTKEYS(ToLowerCase(keys[1])))>>
       \o [i \in 1..(Len(keys) - 1) |-> Op("keyboard", "press", 0, 0, keys[i + 1])]
       \o <<Op("keyboard", "up", 0, 0, HOTKEYS(ToLowerCase(keys[1])))>>
  ELSE [i \in 1..Len(keys) |-> Op("keyboard", "press", 0, 0, MappedKey(keys[i]))]

\* drag: nothing for an empty path; else move to the first point, button down,
\* move through the other points, button up.
dragPlan(path) ==
  IF path = <<>> THEN <<>>
  ELSE <<Op("mouse", "move", path[1][1], path[1][2], ""),
         Op("mouse", "down", 0, 0, "left")>>
       \o [i \in 1..(Len(path) - 1) |->
             Op("mouse", "move", path[i + 1][1], path[i + 1][2], "")]
       \o <<Op("mouse", "up", 0, 0, "left")>>

\* The page interactions a capability performs, in order, when none throws.
Plan(c) ==
  IF c.name = "screenshot" THEN <<Op("page", "screenshot", 0, 0, "")>>
  ELSE IF c.name = "click" THEN clickPlan(c)
  ELSE IF c.name = "double_click" THEN <<Op("mouse", "dblclick", 5, 9, "")>>
  ELSE IF c.name = "scroll"
  THEN <<Op("mouse", "wheel", 0, 3, ""), Op("mouse", "move", 5, 9, "")>>
  ELSE IF c.name = "type" THEN <<Op("keyboard", "type", 0, 0, "text")>>
  ELSE IF c.name = "move" THEN <<Op("mouse", "move", 5, 9, "")>>
  ELSE IF c.name = "keypress" THEN keypressPlan(c.keys)
  ELSE IF c.name = "drag" THEN dragPlan(c.path)
  ELSE IF c.name = "goto" THEN <<Op("page", "goto", 0, 0, "url")>>
  ELSE IF c.name = "back" THEN <<Op("page", "goBack", 0, 0, "")>>
  ELSE <<>>

\* What a capability throws before it touches the page, "" if nothing:
\* if (!this._page) throw ...; click's isNaN test; keys[0] of an empty array.
Precheck_noPageTest(c, page) ==
  IF c.name = "click" /\ (Parsed(c.x) = NaN \/ Parsed(c.y) = NaN) THEN ErrInvalidXY
  ELSE IF c.name = "keypress" /\ c.keys = <<>> THEN ErrTypeError
  ELSE ""

Precheck(c, page) ==
  IF c.name = "wait" THEN ""
  ELSE IF ~page THEN ErrNoPage
  ELSE IF c.name = "click" /\ (Parsed(c.x) = NaN \/ Parsed(c.y) = NaN) THEN ErrInvalidXY
  ELSE IF c.name = "keypress" /\ c.keys = <<>> THEN ErrTypeError
  ELSE ""

NoCall == [call |-> Call("none", "left", Number(5), Number(9), <<>>, <<>>),
           ready |-> FALSE]

NoDisconnect == [called |-> FALSE, hadBrowser |-> FALSE, closes |-> 0]

BrInit ==
  /\ bConn = "none"
  /\ bBrowser = FALSE
  /\ bPage = FALSE
  /\ bDisc = NoDisconnect
  /\ bCall = NoCall
  /\ bPc = "idle"
  /\ bDone = 0
  /\ pageLog = <<>>
  /\ bError = ""

\* connect() up to its await of _getBrowserAndPage()
connectBegins ==
  /\ bConn = "none"
  /\ bConn' = "connecting"
  /\ UNCHANGED <<bBrowser, bPage, bDisc, bCall, bPc, bDone, pageLog, bError>>

\* _getBrowserAndPage() settles: this._browser and this._page are set, or
\* connect() throws and leaves them null.
connectEnds(ok) ==
  /\ bConn = "connecting"
  /\ bConn' = IF ok THEN "connected" ELSE "failed"
  /\ bBrowser' = ok
  /\ bPage' = ok
  /\ UNCHANGED <<bDisc, bCall, bPc, bDone, pageLog, bError>>

\* disconnect(): if (this._browser) await this._browser.close()
disconnect ==
  /\ ~bDisc.called
  /\ bDisc' = [called |-> TRUE, hadBrowser |-> bBrowser,
               closes |-> IF bBrowser THEN 1 ELSE 0]
  /\ UNCHANGED <<bConn, bBrowser, bPage, bCall, bPc, bDone, pageLog, bError>>

\* A capability is called: it runs to its first await, that is, it throws at
\* once, or returns with nothing to do on the page (wait, an empty drag), or
\* issues its first page interaction.
invoke(c) ==
  /\ bPc = "idle"
  /\ bCall' = [call |-> c, ready |-> bPage]
  /\ bDone' = 0
  /\ IF Precheck(c, bPage) # ""
     THEN /\ bPc' = "ended"
          /\ bError' = Precheck(c, bPage)
          /\ pageLog' = pageLog
     ELSE IF Plan(c) = <<>>
     THEN /\ bPc' = "ended"
          /\ bError' = ""
          /\ pageLog' = pageLog
     ELSE /\ bPc' = "running"
          /\ bError' = ""
          /\ pageLog' = Append(pageLog, Plan(c)[1])
  /\ UNCHANGED <<bConn, bBrowser, bPage, bDisc>>

\* The awaited page interaction settles: the capability goes on to its next
\* interaction or returns (ok), or throws what the interaction threw.
interactionEnds(ok) ==
  /\ bPc = "running"
  /\ LET plan == Plan(bCall.call)
     IN IF ~ok
        THEN /\ bPc' = "ended"
             /\ bError' = ErrPlaywright
             /\ UNCHANGED <<bDone, pageLog>>
        ELSE /\ bDone' = bDone + 1
             /\ bError' = bError
             /\ IF bDone + 1 = Len(plan)
                THEN bPc' = "ended" /\ pageLog' = pageLog
                ELSE bPc' = "running" /\ pageLog' = Append(pageLog, plan[bDone + 2])
  /\ UNCHANGED <<bConn, bBrowser, bPage, bDisc, bCall>>

\* ------------------------------------------------------------------------
\* Specifications: each component runs with the other components at rest
\* ------------------------------------------------------------------------

vars == <<crVars, exVars, hVars, called, argVars, brVars>>

\* No createResponse call is under observation.
CrRest ==
  /\ crVariant = "fn"
  /\ crPc = "rest"
  /\ script = <<>>
  /\ retries = 0
  /\ backoff = 0
  /\ requests = 0
  /\ waits = <<>>
  /\ response = 0
  /\ outcome = "none"
  /\ error = ""

\* No takeAction call is under observation.
ExRest ==
  /\ agVariant = "fn"
  /\ computer = TRUE
  /\ ackPolicy = Messages
  /\ exPc = "rest"
  /\ batch = <<>>
  /\ tasks = <<>>
  /\ browser = <<>>
  /\ asked = <<>>
  /\ results = <<>>
  /\ exError = ""

\* No handler is under observation.
HRest ==
  /\ handler = "none"
  /\ hVariant = "fn"
  /\ tools = <<>>
  /\ hPc = "rest"
  /\ body = [sessionId |-> FALSE, userInput |-> FALSE, urlMatch |-> FALSE,
             responseId |-> Undefined, output |-> <<>>]
  /\ connected = FALSE
  /\ lastResponseId = Undefined
  /\ sent = <<>>
  /\ received = <<>>
  /\ stepResult = NoResult
  /\ actions = <<>>
  /\ fakeStep = <<>>
  /\ nextStep = <<>>
  /\ executed = <<>>
  /\ reply = NoReply
  /\ called = <<>>

\* No argument passing is under observation.
ArgRest ==
  /\ argKind = "none"
  /\ argObject = <<>>
  /\ applied = NotApplied

\* No browser session is under observation.
BrRest ==
  /\ bConn = "rest"
  /\ bBrowser = FALSE
  /\ bPage = FALSE
  /\ bDisc = NoDisconnect
  /\ bCall = NoCall
  /\ bPc = "rest"
  /\ bDone = 0
  /\ pageLog = <<>>
  /\ bError = ""

ClientInit == CrInit /\ ExRest /\ HRest /\ ArgRest /\ BrRest

ClientNext ==
  \/ \E s \in Scripts : createResponse(s) /\ UNCHANGED <<exVars, hVars, called, argVars, brVars>>
  \/ fetch /\ UNCHANGED <<exVars, hVars, called, argVars, brVars>>
  \/ wait /\ UNCHANGED <<exVars, hVars, called, argVars, brVars>>

SpecClient == ClientInit /\ [][ClientNext]_vars

ExecInit == ExInit /\ CrRest /\ HRest /\ ArgRest /\ BrRest

ExecNext ==
  \/ \E output \in Batches : takeAction(output) /\ UNCHANGED <<crVars, hVars, called, argVars, brVars>>
  \/ \E i \in 1..Len(tasks), ok \in BOOLEAN :
       capabilityEnds(i, ok) /\ UNCHANGED <<crVars, hVars, called, argVars, brVars>>
  \/ \E i \in 1..Len(tasks), ok \in BOOLEAN :
       screenshotEnds(i, ok) /\ UNCHANGED <<crVars, hVars, called, argVars, brVars>>

SpecExec == ExecInit /\ [][ExecNext]_vars

HandlersInit ==
  HInit /\ called = <<>> /\ CrRest /\ ExRest /\ ArgRest /\ BrRest

HandlersNext ==
  \/ validate /\ UNCHANGED <<crVars, exVars, called, argVars, brVars>>
  \/ \E ok \in BOOLEAN : connect(ok) /\ UNCHANGED <<crVars, exVars, called, argVars, brVars>>
  \/ \E ok \in BOOLEAN, shape \in Shapes :
       startFirst(ok, shape) /\ UNCHANGED <<crVars, exVars, called, argVars, brVars>>
  \/ \E ok \in BOOLEAN : startTake(ok) /\ UNCHANGED <<crVars, exVars, called, argVars, brVars>>
  \/ \E ok \in BOOLEAN, shape \in Shapes :
       startLoopGet(ok, shape) /\ UNCHANGED <<crVars, exVars, called, argVars, brVars>>
  \/ \E ok \in BOOLEAN : startLoopTake(ok) /\ UNCHANGED <<crVars, exVars, called, argVars, brVars>>
  \/ \E ok \in BOOLEAN, shape \in Shapes :
       startFinal(ok, shape) /\ UNCHANGED <<crVars, exVars, called, argVars, brVars>>
  \/ \E ok \in BOOLEAN, shape \in Shapes :
       startEach(ok, shape) /\ UNCHANGED <<crVars, exVars, called, argVars, brVars>>
  \/ \E ok \in BOOLEAN, shape \in Shapes :
       stepFirst(ok, shape) /\ UNCHANGED <<crVars, exVars, called, argVars, brVars>>
  \/ \E ok \in BOOLEAN : stepTake(ok) /\ UNCHANGED <<crVars, exVars, called, argVars, brVars>>
  \/ \E ok \in BOOLEAN, shape \in Shapes :
       stepFollowUp(ok, shape) /\ UNCHANGED <<crVars, exVars, called, argVars, brVars>>
  \/ \E ok \in BOOLEAN, shape \in Shapes :
       stepRetry(ok, shape) /\ UNCHANGED <<crVars, exVars, called, argVars, brVars>>
  \/ stepReply /\ UNCHANGED <<crVars, exVars, called, argVars, brVars>>
  \/ \E ok \in BOOLEAN : actionTake(ok) /\ UNCHANGED <<crVars, exVars, called, argVars, brVars>>

SpecHandlers == HandlersInit /\ [][HandlersNext]_vars

\* A handler is one async function: whenever it can go on (the awaited call
\* has settled) the runtime resumes it.
SpecHandlersLive == SpecHandlers /\ WF_vars(HandlersNext)

AgentSpecInit == AgentInit /\ CrRest /\ ExRest /\ ArgRest /\ BrRest

AgentNext ==
  \E inputItems \in InputLists, previousResponseId \in Tokens, ok \in BOOLEAN :
    callGetAction(inputItems, previousResponseId, ok)
      /\ UNCHANGED <<crVars, exVars, argVars, brVars>>

SpecAgent == AgentSpecInit /\ [][AgentNext]_vars

ArgsSpecInit == ArgsInit /\ CrRest /\ ExRest /\ HRest /\ BrRest

ArgsNext ==
  \/ applyAction /\ UNCHANGED <<crVars, exVars, hVars, called, brVars>>
  \/ applyFunction /\ UNCHANGED <<crVars, exVars, hVars, called, brVars>>

SpecArgs == ArgsSpecInit /\ [][ArgsNext]_vars

BrowserInit == BrInit /\ CrRest /\ ExRest /\ HRest /\ ArgRest

BrowserNext ==
  \/ connectBegins /\ UNCHANGED <<crVars, exVars, hVars, called, argVars>>
  \/ \E ok \in BOOLEAN :
       connectEnds(ok) /\ UNCHANGED <<crVars, exVars, hVars, called, argVars>>
  \/ disconnect /\ UNCHANGED <<crVars, exVars, hVars, called, argVars>>
  \/ \E c \in Calls : invoke(c) /\ UNCHANGED <<crVars, exVars, hVars, called, argVars>>
  \/ \E ok \in BOOLEAN :
       interactionEnds(ok) /\ UNCHANGED <<crVars, exVars, hVars, called, argVars>>

SpecBrowser == BrowserInit /\ [][BrowserNext]_vars

\* ------------------------------------------------------------------------
\* Properties of the Model Request Client (checked under SpecClient)
\* ------------------------------------------------------------------------

Started == crPc # "idle"

\* The most requests one call makes: 3 passes of the while loop in agent.ts,
\* a first attempt and 3 retries in fetchWithRetry.
AttemptCap(v) == IF v = "fn" THEN 3 ELSE 4

\* The first delay: 1000 ms in agent.ts, 300 ms in fetchWithRetry.
BaseDelay(v) == IF v = "fn" THEN 1000 ELSE 300

\* The first k answers are transient failures (HTTP 5xx or a transport failure).
TransientPrefix(k) == \A i \in 1..k : IsTransient(Served(i))

NonDecreasing(s) == \A i \in 1..Len(s) : \A j \in i..Len(s) : s[i] <= s[j]

\* The i-th wait of the call was followed by a further attempt, or is about to be.
PrecedesAttempt(i) == requests > i \/ (requests = i /\ crPc = "fetch")

\* C1: a 4xx answer to the first attempt is fatal: the call fails after exactly
\* one request, with no retry and no backoff wait.
C1_FourXXFatal ==
  (Started /\ requests >= 1 /\ Served(1) = 400) =>
    /\ crPc = "done"
    /\ outcome = "threw"
    /\ requests = 1
    /\ waits = <<>>

\* C7: k transient failures (k below the attempt cap) followed by a 200: the call
\* returns that 200 after exactly k retries (k + 1 requests), and the delays
\* between its attempts are non-decreasing.
C7_RetryThenSuccess ==
  \A k \in 1..(AttemptCap(crVariant) - 1) :
    (crPc = "done" /\ TransientPrefix(k) /\ IsOk(Served(k + 1))) =>
      /\ outcome = "returned"
      /\ response = Served(k + 1)
      /\ requests = k + 1
      /\ Len(waits) = k
      /\ NonDecreasing(waits)

\* C7's case: two HTTP 500s, then a 200, and the call has returned.
C7_Witness ==
  /\ crPc = "done"
  /\ Served(1) = 500 /\ Served(2) = 500 /\ Served(3) = 200
  /\ outcome = "returned"
  /\ requests = 3
  /\ waits = <<1000, 2000>>

\* C8 as stated: one call issues at most 3 HTTP requests.
C8_AtMostThreeRequests == requests <= 3

\* C8 as amended: at most 3 requests in agent.ts, at most 4 (the first attempt
\* and 3 retries) in class Agent; a call that has reached its cap has ended.
C8_AttemptCap ==
  /\ requests <= AttemptCap(crVariant)
  /\ (requests = AttemptCap(crVariant) /\ crVariant = "cls") => crPc = "done"
  /\ (requests = AttemptCap(crVariant) /\ crVariant = "fn") =>
       crPc \in {"done", "backoff"}

\* C8's case: a call of class Agent that met only failures has made 4 requests.
C8_Witness ==
  /\ crVariant = "cls"
  /\ crPc = "done"
  /\ outcome = "threw"
  /\ requests = 4

\* C9: the first delay waited before a further attempt is the base delay, and
\* the delay waited before each later attempt is double the one before it.
C9_Doubling ==
  \A i \in 1..Len(waits) :
    PrecedesAttempt(i) =>
      /\ (i = 1 => waits[i] = BaseDelay(crVariant))
      /\ (i > 1 => waits[i] = 2 * waits[i - 1])

\* C9's case: three waits, each followed by an attempt.
C9_Witness ==
  /\ crPc = "done"
  /\ requests = 4
  /\ waits = <<300, 600, 1200>>

\* Every attempt of the ended call failed transiently.
Exhausted ==
  /\ crPc = "done"
  /\ requests >= 1
  /\ TransientPrefix(requests)

\* C10 as stated: exhausting the attempts on transient failures raises
\* "Max retries exceeded", after 5xx and after transport failures alike.
C10_MaxRetriesExceeded ==
  Exhausted => (outcome = "threw" /\ error = ErrMaxRetries)

\* C10 as amended: exhaustion raises a terminal error at the attempt cap; it is
\* "Max retries exceeded" only in agent.ts after a last 5xx. A last transport
\* failure is re-thrown as it is, and class Agent raises "Request failed with
\* status" after a last 5xx.
C10_TerminalError ==
  Exhausted =>
    /\ outcome = "threw"
    /\ requests = AttemptCap(crVariant)
    /\ error = (IF Served(requests) = NetworkError THEN ErrFetch
                ELSE IF crVariant = "fn" THEN ErrMaxRetries
                ELSE ErrRequestFailed)

\* C10's case: agent.ts has exhausted its attempts on transport failures.
C10_Witness ==
  /\ Exhausted
  /\ crVariant = "fn"
  /\ Served(requests) = NetworkError
  /\ requests = 3
  /\ error = ErrFetch

\* ------------------------------------------------------------------------
\* Properties of the Action Executor (checked under SpecExec)
\* ------------------------------------------------------------------------

\* Where event e stands in the browser's log.
Positions(e) == {p \in 1..Len(browser) : browser[p] = e}

ComputerItems == {i \in 1..Len(batch) : batch[i].type = "computer_call"}

FunctionItems == {i \in 1..Len(batch) : batch[i].type = "function_call"}

\* The policy answers false to one of the item's pending safety checks.
PolicyRejects(i) ==
  \E k \in 1..Len(batch[i].pending_safety_checks) :
    batch[i].pending_safety_checks[k] \notin ackPolicy

ActionDone(i) == Positions(Event(i, batch[i].action, "action", "done"))

ActionCalled(i) == Positions(Event(i, batch[i].action, "action", "call"))

ShotCalled(i) == Positions(Event(i, "screenshot", "feedback", "call"))

ShotDone(i) == Positions(Event(i, "screenshot", "feedback", "done"))

\* The browser calls executor call i has begun.
CallsOf(i) == {p \in 1..Len(browser) : browser[p].task = i /\ browser[p].phase = "call"}

\* The results of takeAction that carry call_id c.
ResultsFor(c) == {k \in 1..Len(results) : results[k].call_id = c}

\* C2: a computer_call with a pending safety check the policy rejects: once its
\* action and the screenshot have completed on the browser the call has thrown
\* the "cannot continue" error; it threw that error only after both; it never
\* returns an output.
C2_SafetyGate ==
  \A i \in ComputerItems :
    PolicyRejects(i) =>
      /\ tasks[i].pc # "returned"
      /\ ResultsFor(CallId(i)) = {}
      /\ (ShotDone(i) # {}) => (tasks[i].pc = "threw" /\ tasks[i].err = ErrSafety)
      /\ (tasks[i].pc = "threw" /\ tasks[i].err = ErrSafety) =>
           \E p \in ActionDone(i) : \E q \in ShotDone(i) : p < q
      /\ (\E m \in Messages : \E k \in 1..Len(asked) : asked[k] = <<i, m>>) =>
           ShotDone(i) # {}

\* C2's case: one pending check, rejected; the click went through, takeAction threw.
C2_Witness ==
  /\ exPc = "rejected"
  /\ exError = ErrSafety
  /\ Len(batch) = 1
  /\ batch[1].type = "computer_call"
  /\ batch[1].action = "click"
  /\ batch[1].pending_safety_checks = <<"m1">>
  /\ "m1" \notin ackPolicy
  /\ ActionDone(1) # {}
  /\ ShotDone(1) # {}
  /\ results = <<>>

\* C4: every computer_call whose takeComputerAction returned: the capability its
\* action names was invoked exactly once, one screenshot was captured after that
\* invocation completed, and takeAction's results hold exactly one output with
\* the item's call_id, a computer_call_output whose image is that screenshot.
C4_OneOutputPerComputerCall ==
  \A i \in ComputerItems :
    /\ tasks[i].pc = "returned" =>
         /\ Cardinality(ActionCalled(i)) = 1
         /\ Cardinality(ActionDone(i)) = 1
         /\ Cardinality(ShotCalled(i)) = 1
         /\ Cardinality(ShotDone(i)) = 1
         /\ Cardinality(CallsOf(i)) = 2
         /\ \A c \in ActionCalled(i) : \A p \in ActionDone(i) :
              \A c2 \in ShotCalled(i) : \A q \in ShotDone(i) :
                c < p /\ p < c2 /\ c2 < q
    /\ exPc = "resolved" =>
         /\ Cardinality(ResultsFor(CallId(i))) = 1
         /\ \A k \in ResultsFor(CallId(i)) :
              /\ results[k].type = "computer_call_output"
              /\ results[k].output.type = "input_image"
              /\ results[k].output.image_url \in ShotDone(i)

\* C4's case: a drag was executed and its output returned.
C4_Witness ==
  /\ exPc = "resolved"
  /\ Len(batch) = 1
  /\ batch[1].type = "computer_call"
  /\ batch[1].action = "drag"
  /\ Len(results) = 1
  /\ results[1].call_id = CallId(1)

\* The positions of the batch's computer_call and function_call items, in order.
RECURSIVE ActionablePositions(_)
ActionablePositions(k) ==
  IF k > Len(batch) THEN <<>>
  ELSE (IF batch[k].type \in {"computer_call", "function_call"} THEN <<k>> ELSE <<>>)
       \o ActionablePositions(k + 1)

\* C5: takeAction on a batch with N computer_call/function_call items returns
\* exactly N results, one per such item and carrying its call_id; message and
\* reasoning items produce none.
C5_OneResultPerActionableItem ==
  exPc = "resolved" =>
    LET pos == ActionablePositions(1)
    IN /\ Len(results) = Len(pos)
       /\ \A k \in 1..Len(pos) :
            /\ results[k].call_id = CallId(pos[k])
            /\ results[k].type =
                 (IF batch[pos[k]].type = "computer_call"
                  THEN "computer_call_output" ELSE "function_call_output")
       /\ \A i \in 1..Len(batch) :
            batch[i].type \in {"message", "reasoning"} => ResultsFor(CallId(i)) = {}

\* C5's case: a message and a function_call: one result, the function_call's.
C5_Witness ==
  /\ exPc = "resolved"
  /\ Len(batch) = 2
  /\ batch[1].type = "message"
  /\ batch[2].type = "function_call"
  /\ Len(results) = 1
  /\ results[1].call_id = CallId(2)

\* C6: every function_call of a batch takeAction returned from has exactly one
\* result, the function_call_output with its call_id and output "success"; a
\* function_call naming a capability the browser does not have invokes nothing
\* on the browser and, its arguments decoded, has returned when takeAction's
\* loop is over.
C6_FunctionCallSuccess ==
  \A i \in FunctionItems :
    /\ exPc = "resolved" =>
         /\ Cardinality(ResultsFor(CallId(i))) = 1
         /\ \A k \in ResultsFor(CallId(i)) :
              results[k] = [type |-> "function_call_output",
                            call_id |-> CallId(i),
                            output |-> "success"]
    /\ batch[i].name \notin Methods =>
         /\ \A p \in 1..Len(browser) : browser[p].task # i
         /\ batch[i].arguments = "{\"url\":\"u\"}" => tasks[i].pc = "returned"

\* C6's case: "refresh", which the browser does not have: success, nothing invoked.
C6_Witness ==
  /\ exPc = "resolved"
  /\ Len(batch) = 1
  /\ batch[1].type = "function_call"
  /\ batch[1].name = "refresh"
  /\ browser = <<>>
  /\ results = <<[type |-> "function_call_output", call_id |-> CallId(1),
                  output |-> "success"]>>

\* ------------------------------------------------------------------------
\* Handler properties
\* ------------------------------------------------------------------------

\* The positions of the computer_call and function_call items of an output.
CallPositions(output) ==
  {i \in 1..Len(output) : output[i].type \in {"computer_call", "function_call"}}

\* The input items of request q that answer the call item: the same call_id
\* and the output type of the call's type.
MatchingOutputs(q, item) ==
  {j \in 1..Len(q.input) :
     /\ q.input[j].call_id = item.call_id
     /\ q.input[j].type = (IF item.type = "computer_call"
                           THEN "computer_call_output"
                           ELSE "function_call_output")}

\* Request q continues from response r.
ContinuesFrom(q, r) == q.previous_response_id = r.responseId

\* C3: in the driving handlers, every computer_call and function_call item of
\* a model response has exactly one matching output, keyed by the same
\* call_id, in the input of every model request that continues from that
\* response.
C3_EveryCallAnswered ==
  \A n \in 1..Len(sent) : \A m \in 1..Len(received) :
    ContinuesFrom(sent[n], received[m]) =>
      \A i \in CallPositions(received[m].output) :
        Cardinality(MatchingOutputs(sent[n], received[m].output[i])) = 1

\* A response that is one reasoning item and nothing else.
SingleReasoning(output) ==
  Len(output) = 1 /\ output[1].type = "reasoning"

\* A response with an item to act on or to show.
Actionable(output) ==
  \E i \in 1..Len(output) :
    output[i].type \in {"computer_call", "function_call", "message"}

\* The synthetic continuation prompt, continuing from response r.
ContinuePrompt(q, r) ==
  /\ q.input = <<Text("user", "Please continue with the task.")>>
  /\ q.previous_response_id = r.responseId

\* The step handler has returned its result after responses that were each a
\* single reasoning item until the last one, which is actionable.
ReasoningUntilLast ==
  /\ handler = "step"
  /\ hPc = "done"
  /\ reply.status = 200
  /\ received # <<>>
  /\ \A k \in 1..(Len(received) - 1) : SingleReasoning(received[k].output)
  /\ Actionable(received[Len(received)].output)

\* C14: when the responses in the step handler are each a single reasoning
\* item until the n-th is actionable, the handler has issued n model requests,
\* the last n-1 of them the synthetic continuation prompt, each continuing from
\* the responseId of the response just before it, and returns the n-th response.
C14_ReasoningLoop ==
  ReasoningUntilLast =>
    /\ Len(sent) = Len(received)
    /\ \A k \in 2..Len(sent) : ContinuePrompt(sent[k], received[k - 1])
    /\ sent[1].input # <<Text("user", "Please continue with the task.")>>
    /\ reply.json = <<received[Len(received)]>>

\* C14 witness: three single-reasoning responses, then an actionable fourth.
C14_Witness ==
  /\ ReasoningUntilLast
  /\ Len(received) = 4
  /\ Len(sent) = 4

\* A response that holds reasoning items and nothing else.
OnlyReasoningItems(output) ==
  /\ output # <<>>
  /\ \A i \in 1..Len(output) : output[i].type = "reasoning"

\* C15: the step handler never returns, as the turn result, a response that
\* holds only reasoning items and no actionable item.
C15_ReasoningNeverReturned ==
  (handler = "step" /\ hPc = "done" /\ reply.status = 200) =>
    \A k \in 1..Len(reply.json) : ~OnlyReasoningItems(reply.json[k].output)

\* C19: within a handler no responseId is the previous_response_id of more
\* than one model request.
C19_TokenUsedOnce ==
  (handler \in {"start", "step"}) =>
    \A n \in 1..Len(sent) : \A m \in 1..Len(sent) :
      (n # m /\ sent[n].previous_response_id # Undefined) =>
        sent[n].previous_response_id # sent[m].previous_response_id

\* ------------------------------------------------------------------------
\* Agent properties
\* ------------------------------------------------------------------------

\* The last getAction call made on the agent.
LastCall == called[Len(called)]

\* C11: after every getAction call that completes, the agent's lastResponseId
\* equals the id that model call returned.
C11_TokenIsReturnedId ==
  (called # <<>> /\ LastCall.responseId # Undefined) =>
    lastResponseId = LastCall.responseId

\* C12: a getAction call given a previousResponseId sends a request whose
\* previous_response_id is exactly that id and whose input is exactly the
\* inputItems of the call, with no earlier input item in it.
C12_Continuity ==
  \A n \in 1..Len(called) :
    called[n].previousResponseId # Undefined =>
      /\ sent[n].previous_response_id = called[n].previousResponseId
      /\ sent[n].input = called[n].inputItems

\* C12 witness: a second call continues from the id the first call returned.
C12_Witness ==
  /\ handler = "agent"
  /\ Len(called) >= 2
  /\ called[1].responseId # Undefined
  /\ called[2].previousResponseId = called[1].responseId
  /\ sent[2].input = called[2].inputItems

\* C13: a getAction call made with no previousResponseId sends a request that
\* carries no previous_response_id, whatever calls were made on the agent before.
C13_NoTokenNewConversation ==
  \A n \in 1..Len(called) :
    called[n].previousResponseId = Undefined =>
      sent[n].previous_response_id = Undefined

\* ------------------------------------------------------------------------
\* Executor properties: failure and concurrency of a turn
\* ------------------------------------------------------------------------

\* The executor calls of the turn that have thrown.
Thrown == {i \in 1..Len(tasks) : tasks[i].pc = "threw"}

\* C16: if any executor call of a turn fails, takeAction is rejected with the
\* failure of one of the failed calls and has no results, whatever the other
\* calls of the turn return.
C16_WholeTurnFails ==
  Thrown # {} =>
    /\ exPc = "rejected"
    /\ results = <<>>
    /\ \E i \in Thrown : exError = tasks[i].err

\* C16 witness: one call of the turn has returned its output, the other threw.
C16_Witness ==
  /\ Len(tasks) = 2
  /\ \E i \in 1..2 : \E j \in 1..2 :
       /\ tasks[i].pc = "returned"
       /\ tasks[j].pc = "threw"
       /\ tasks[j].err \in {ErrCapability, ErrScreenshot, ErrSafety}
  /\ exPc = "rejected"

\* C17: the browser interactions of two actions of one turn never interleave:
\* on the session, the interactions of each action are one unbroken run.
C17_Serialized ==
  \A a \in 1..Len(browser) : \A c \in a..Len(browser) :
    browser[a].task = browser[c].task =>
      \A b \in a..c : browser[b].task = browser[a].task

\* The browser calls (capability invocations and screenshot captures) begun.
CallsBegun(log) == {p \in 1..Len(log) : log[p].phase = "call"}

\* C18: once takeAction has failed, no action of the turn begins another
\* capability invocation or screenshot capture.
C18_FailureAbortsTurn ==
  [][exPc = "rejected" => CallsBegun(browser') = CallsBegun(browser)]_vars

\* C20: a computer_call met with no browser handle, or naming an action type
\* that is none of the primitives, has thrown a descriptive error (the missing
\* handle, the missing method) as soon as it was dispatched, with no browser
\* interaction of its own and no output.
C20_PreconditionFatal ==
  \A i \in ComputerItems :
    (tasks # <<>> /\ (~computer \/ batch[i].action \notin Primitives)) =>
      /\ tasks[i].pc = "threw"
      /\ tasks[i].err = (IF ~computer THEN ErrNoComputer ELSE ErrNoMethod)
      /\ \A p \in 1..Len(browser) : browser[p].task # i
      /\ results = <<>>

\* ------------------------------------------------------------------------
\* Executor properties: safety checks
\* ------------------------------------------------------------------------

\* C21: takeComputerAction returns an output only for an item whose pending
\* safety checks the policy all accepts, and the output of the call lists as
\* acknowledged_safety_checks exactly the item's pending_safety_checks.
C21_OutputOnlyIfAcknowledged ==
  \A i \in ComputerItems :
    (tasks # <<>> /\ tasks[i].pc = "returned") =>
      /\ \A k \in 1..Len(batch[i].pending_safety_checks) :
           batch[i].pending_safety_checks[k] \in ackPolicy
      /\ exPc = "resolved" =>
           /\ ResultsFor(CallId(i)) # {}
           /\ \A k \in ResultsFor(CallId(i)) :
                results[k].acknowledged_safety_checks = batch[i].pending_safety_checks

\* C21 witness: an item with two pending checks, both acknowledged, returned.
C21_Witness ==
  /\ exPc = "resolved"
  /\ Len(batch) = 1
  /\ batch[1].type = "computer_call"
  /\ batch[1].pending_safety_checks = <<"m1", "m2">>
  /\ Len(results) = 1
  /\ results[1].acknowledged_safety_checks = <<"m1", "m2">>

\* The checks the policy was asked about for executor call i, in order.
AskedOf(i) == SelectSeq(asked, LAMBDA q : q[1] = i)

\* C29: for every computer_call the policy is asked about the item's pending
\* checks in list order, only once the capability and the screenshot have
\* completed, and about no check that follows one it rejected.
C29_ChecksInOrderUntilRejected ==
  \A i \in ComputerItems :
    LET mine == AskedOf(i)
        checks == batch[i].pending_safety_checks
    IN /\ Len(mine) <= Len(checks)
       /\ \A k \in 1..Len(mine) : mine[k] = <<i, checks[k]>>
       /\ \A k \in 1..(Len(mine) - 1) : checks[k] \in ackPolicy
       /\ mine # <<>> => (ActionDone(i) # {} /\ ShotDone(i) # {})

\* C29 witness: the first of two checks is rejected; the second is never asked.
C29_Witness ==
  /\ Len(batch) = 1
  /\ batch[1].type = "computer_call"
  /\ batch[1].pending_safety_checks = <<"m1", "m2">>
  /\ "m1" \notin ackPolicy
  /\ asked = <<<<1, "m1">>>>
  /\ tasks[1].pc = "threw"

\* C31: an agent created without an acknowledgment policy acknowledges every
\* safety check: no takeComputerAction call fails on a safety check, a call
\* whose screenshot was taken has been asked about all its pending checks and
\* has returned, and its output reports every pending check as acknowledged.
C31_DefaultPolicyAcknowledgesAll ==
  ackPolicy = DefaultPolicy =>
    /\ exError # ErrSafety
    /\ \A i \in 1..Len(tasks) : tasks[i].err # ErrSafety
    /\ \A i \in ComputerItems :
         ShotDone(i) # {} =>
           /\ tasks[i].pc = "returned"
           /\ AskedOf(i) = [k \in 1..Len(batch[i].pending_safety_checks) |->
                              <<i, batch[i].pending_safety_checks[k]>>]
           /\ exPc = "resolved" =>
                /\ ResultsFor(CallId(i)) # {}
                /\ \A k \in ResultsFor(CallId(i)) :
                     results[k].acknowledged_safety_checks =
                       batch[i].pending_safety_checks

\* C31 witness: under the default policy a call with two pending checks has
\* returned, both reported as acknowledged.
C31_Witness ==
  /\ ackPolicy = DefaultPolicy
  /\ exPc = "resolved"
  /\ batch # <<>>
  /\ batch[1].type = "computer_call"
  /\ batch[1].pending_safety_checks = <<"m1", "m2">>
  /\ AskedOf(1) = <<<<1, "m1">>, <<1, "m2">>>>
  /\ \E k \in 1..Len(results) :
       results[k].acknowledged_safety_checks = <<"m1", "m2">>

\* ------------------------------------------------------------------------
\* Handler properties: the requests of a handler
\* ------------------------------------------------------------------------

\* The manifest the orchestrator is built with: the computer-use tool with the
\* viewport and the environment tag, back without parameters, goto with url.
FixedManifest(m) ==
  /\ Len(m) = 3
  /\ m[1].type \in {"computer-preview", "computer_use_preview"}
  /\ m[1].display_width = 1024
  /\ m[1].display_height = 768
  /\ m[1].environment = "browser"
  /\ m[2].type = "function" /\ m[2].name = "back" /\ m[2].parameters = <<>>
  /\ m[3].type = "function" /\ m[3].name = "goto"
  /\ m[3].parameters.required = <<"url">>
  /\ m[3].parameters.additionalProperties = FALSE

\* C26: every model request carries truncation "auto" and the fixed tool
\* manifest, and the agent's manifest is the same after every getAction and
\* takeAction call.
C26_FixedManifest ==
  /\ FixedManifest(tools)
  /\ \A n \in 1..Len(sent) :
       /\ sent[n].truncation = "auto"
       /\ FixedManifest(sent[n].tools)

\* C26 witness: a handler that has sent requests around a takeAction call.
C26_Witness ==
  /\ Len(sent) >= 2
  /\ executed # <<>>
  /\ sent[2].truncation = "auto"

\* The output holds a message item.
HoldsMessage(output) == \E i \in 1..Len(output) : output[i].type = "message"

\* The results takeAction owes for an output: one per computer_call and
\* function_call item, in item order, keyed by the item's call_id.
TurnOutputs(output) ==
  LET calls == SelectSeq(output,
                 LAMBDA x : x.type \in {"computer_call", "function_call"})
  IN [j \in 1..Len(calls) |->
        IF calls[j].type = "computer_call"
        THEN [type |-> "computer_call_output", call_id |-> calls[j].call_id,
              content |-> "input_image"]
        ELSE [type |-> "function_call_output", call_id |-> calls[j].call_id,
              content |-> "success"]]

\* The request that ends the bootstrap: "Let's continue." and the user's input.
FinalInput == <<Text("user", "Let's continue."), Text("user", "userInput")>>

\* C22: in the start handler's bootstrap loop every response without a message
\* has takeAction run on it and is followed by a request whose input is the
\* outputs of that takeAction; the request that leaves the loop follows a
\* response with a message.
C22_TurnLoop ==
  (handler = "start" /\ body.urlMatch) =>
    \A k \in 1..Len(received) :
      Len(sent) > k =>
        IF HoldsMessage(received[k].output)
        THEN sent[k + 1].input = FinalInput
        ELSE /\ Len(executed) >= k
             /\ executed[k] = received[k].output
             /\ sent[k + 1].input = TurnOutputs(received[k].output)

\* C23: when the first response of the start handler holds a message the
\* handler returns that one turn result, having run takeAction on nothing and
\* sent no further model request.
C23_MessageIsTerminal ==
  (handler = "start" /\ received # <<>> /\ HoldsMessage(received[1].output)) =>
    /\ hPc = "done"
    /\ reply = [status |-> 200, json |-> <<received[1]>>]
    /\ executed = <<>>
    /\ Len(sent) = 1
    /\ Len(received) = 1

\* C23 witness: the first response holds a message and a computer_call.
C23_Witness ==
  /\ handler = "start"
  /\ Len(received) = 1
  /\ HoldsMessage(received[1].output)
  /\ \E i \in 1..Len(received[1].output) : received[1].output[i].type = "computer_call"
  /\ reply.status = 200

\* getAction raised in this step: a request went out and no response came back.
GetActionRaised == Len(sent') = Len(sent) + 1 /\ received' = received

\* takeAction raised in this step: the handler was at a takeAction call and
\* left it without the call completing.
TakeActionRaised ==
  /\ hPc \in {"take", "loopTake"}
  /\ hPc' # hPc
  /\ executed' = executed

\* C24: a step of a handler in which getAction or takeAction raises ends the
\* handler with the failure response (status 500, no turn results), and the
\* response of a handler that has ended never changes.
C24_ErrorsPropagate ==
  [][/\ (GetActionRaised \/ TakeActionRaised) =>
          /\ hPc' = "done"
          /\ reply' = [status |-> 500, json |-> <<>>]
     /\ hPc = "done" => (hPc' = "done" /\ reply' = reply)]_vars

\* C24 witness: the start handler failed at its second model request, after
\* a first response and its takeAction.
C24_Witness ==
  /\ handler = "start"
  /\ Len(sent) = 2
  /\ Len(received) = 1
  /\ executed # <<>>
  /\ reply.status = 500

\* C27: the action handler runs takeAction once, on the supplied output, and
\* returns its results; it sends no model request and changes no token.
C27_ActionOutOfBand ==
  handler = "action" =>
    /\ sent = <<>>
    /\ received = <<>>
    /\ lastResponseId = Undefined
    /\ Len(executed) <= 1
    /\ reply.status = 200 =>
         /\ executed = <<body.output>>
         /\ reply.json = TurnOutputs(body.output)

\* C27 witness: a batch of a computer_call and a function_call was executed.
C27_Witness ==
  /\ handler = "action"
  /\ reply.status = 200
  /\ Len(reply.json) = 2

\* The requests that carry the user's original input.
UserInputRequests ==
  {k \in 1..Len(sent) :
     \E j \in 1..Len(sent[k].input) : sent[k].input[j] = Text("user", "userInput")}

\* C30: in the URL bootstrap path of the start handler the first request has
\* no previous_response_id and every later one has the responseId of the
\* response just before it; the user's input goes out in one request only,
\* the last, with "Let's continue.", after a response with a message, and a
\* bootstrap that returns its result has sent it.
C30_BootstrapChain ==
  (handler = "start" /\ body.urlMatch) =>
    /\ \A k \in 1..Len(sent) :
         sent[k].previous_response_id =
           (IF k = 1 THEN Undefined ELSE received[k - 1].responseId)
    /\ Cardinality(UserInputRequests) <= 1
    /\ \A k \in UserInputRequests :
         /\ k = Len(sent)
         /\ k >= 2
         /\ sent[k].input = FinalInput
         /\ HoldsMessage(received[k - 1].output)
    /\ (hPc = "done" /\ reply.status = 200 /\ Len(sent) >= 2) =>
         UserInputRequests = {Len(sent)}

\* C30 witness: two turns of the loop, then the final request, answered.
C30_Witness ==
  /\ handler = "start"
  /\ body.urlMatch
  /\ Len(sent) = 4
  /\ reply.status = 200
  /\ UserInputRequests = {4}

\* The step handler holds a response that is not a single reasoning item.
NonReasoningArrived ==
  /\ handler = "step"
  /\ hPc = "reasoning"
  /\ ~SingleReasoning(stepResult.output)

\* The step handler has returned exactly one turn result.
OneResultReturned ==
  /\ hPc = "done"
  /\ reply.status = 200
  /\ reply.json = <<stepResult>>

\* C28: the step handler's retry loop goes on as long as the responses are
\* single reasoning items, and once a response that is not one has arrived the
\* handler eventually returns exactly one turn result, that response.
C28_LoopEndsOnNonReasoning ==
  /\ [](handler = "step" /\ hPc = "done" /\ reply.status = 200 =>
          ~SingleReasoning(stepResult.output))
  /\ NonReasoningArrived ~> OneResultReturned

\* C28 witness: the handler returned after two rounds of the retry loop.
C28_Witness ==
  /\ handler = "step"
  /\ OneResultReturned
  /\ Len(received) = 3
  /\ SingleReasoning(received[1].output)
  /\ SingleReasoning(received[2].output)

\* ------------------------------------------------------------------------
\* Argument-passing properties
\* ------------------------------------------------------------------------

\* The fields of the action without the discriminator, in insertion order.
DeclaredFields == SelectSeq(argObject, LAMBDA f : f.key # "type")

\* The place of field i of the decoded arguments in object-iteration order:
\* integer-like keys first, ascending, then the others as inserted.
IterationPlace(i) ==
  LET indexKeys == {j \in 1..Len(argObject) : IsIndex(argObject[j].key)}
  IN IF i \in indexKeys
     THEN 1 + Cardinality({j \in indexKeys :
                             IndexOf(argObject[j].key) < IndexOf(argObject[i].key)})
     ELSE Cardinality(indexKeys) + 1
            + Cardinality({j \in 1..(i - 1) : j \notin indexKeys})

\* C25: takeComputerAction passes the values of the action's fields other than
\* "type", the i-th of them in insertion order as the i-th argument;
\* takeFunctionAction passes the values of the decoded arguments in
\* object-iteration order.
C25_PositionalArguments ==
  applied.done =>
    IF argKind = "computer"
    THEN /\ Len(applied.args) = Len(DeclaredFields)
         /\ \A i \in 1..Len(DeclaredFields) : applied.args[i] = DeclaredFields[i].value
    ELSE /\ Len(applied.args) = Len(argObject)
         /\ \A i \in 1..Len(argObject) :
              applied.args[IterationPlace(i)] = argObject[i].value

\* C25 witness: an action whose discriminator lies between two fields with
\* different values; the two values were passed in their order.
C25_Witness ==
  /\ argKind = "computer"
  /\ applied.done
  /\ Len(argObject) = 3
  /\ argObject[2].key = "type"
  /\ argObject[1].value # argObject[3].value
  /\ applied.args = <<argObject[1].value, argObject[3].value>>


\* ------------------------------------------------------------------------
\* Properties of the browser session (SpecBrowser)
\* ------------------------------------------------------------------------

\* The capability under observation
TheCall == bCall.call

\* How many interactions of the log are the operation op on the device dev
\* with the key or button k
Count(dev, op, k) ==
  Cardinality({i \in 1..Len(pageLog) :
                 pageLog[i].dev = dev /\ pageLog[i].op = op /\ pageLog[i].key = k})

\* The keys (buttons) of a device that are down and not released
Held(dev) ==
  {k \in {"Control", "Shift", "Alt", "Meta", "left"} :
     Count(dev, "down", k) > Count(dev, "up", k)}

CompletedNormally(name) ==
  bPc = "ended" /\ bError = "" /\ bCall.ready /\ TheCall.name = name

\* C34: when keypress or drag completes normally no modifier key and no mouse
\* button is left down: the hotkey path is modifier down, the other keys
\* pressed in order, modifier up; a drag is move to the first point, button
\* down, moves through the other points in order, button up; a drag with an
\* empty path does nothing with the mouse.
C34_DevicesRestored ==
  /\ CompletedNormally("keypress") =>
       LET keys == TheCall.keys
           mod == HOTKEYS(ToLowerCase(keys[1]))
       IN /\ Held("keyboard") = {}
          /\ mod # "" =>
               /\ Len(pageLog) = Len(keys) + 1
               /\ pageLog[1].op = "down" /\ pageLog[1].key = mod
               /\ \A i \in 2..Len(keys) :
                    pageLog[i].op = "press" /\ pageLog[i].key = keys[i]
               /\ pageLog[Len(keys) + 1].op = "up"
               /\ pageLog[Len(keys) + 1].key = mod
               /\ Count("keyboard", "down", mod) = 1
               /\ Count("keyboard", "up", mod) = 1
  /\ CompletedNormally("drag") =>
       LET path == TheCall.path
       IN /\ Held("mouse") = {}
          /\ path = <<>> => pageLog = <<>>
          /\ path # <<>> =>
               /\ Len(pageLog) = Len(path) + 2
               /\ pageLog[1].op = "move"
               /\ <<pageLog[1].a, pageLog[1].b>> = path[1]
               /\ pageLog[2].op = "down"
               /\ \A i \in 2..Len(path) :
                    /\ pageLog[i + 1].op = "move"
                    /\ <<pageLog[i + 1].a, pageLog[i + 1].b>> = path[i]
               /\ pageLog[Len(path) + 2].op = "up"
               /\ pageLog[Len(path) + 2].key = pageLog[2].key

\* C34 witness: a hotkey keypress of two keys has completed normally
C34_Witness ==
  /\ CompletedNormally("keypress")
  /\ Len(TheCall.keys) = 2
  /\ HOTKEYS(ToLowerCase(TheCall.keys[1])) = "Control"
  /\ Len(pageLog) = 3

\* A coordinate that is not a number: the number NaN, or a string with no
\* leading base-10 integer
NotANumber(c) == IF c.isString THEN c.text \notin {"7", "12px"} ELSE c.num = NaN

\* C35: click does at most one thing with the mouse: nothing, failing with
\* "Invalid x or y coordinate", when a coordinate is NaN; one wheel scroll and
\* no click for the button "wheel"; one click with the given button otherwise.
C35_ClickOnce ==
  (bPc # "idle" /\ bCall.ready /\ TheCall.name = "click") =>
    /\ Len(pageLog) <= 1
    /\ IF NotANumber(TheCall.x) \/ NotANumber(TheCall.y)
       THEN bPc = "ended" /\ bError = ErrInvalidXY /\ pageLog = <<>>
       ELSE /\ bError # ErrInvalidXY
            /\ Len(pageLog) = 1
            /\ pageLog[1].dev = "mouse"
            /\ IF TheCall.button = "wheel"
               THEN pageLog[1].op = "wheel"
               ELSE pageLog[1].op = "click" /\ pageLog[1].key = TheCall.button

\* C35 witness: a click whose x is the string "abc" has failed
C35_Witness ==
  /\ bPc = "ended" /\ bCall.ready /\ TheCall.name = "click"
  /\ TheCall.x = String("abc")
  /\ bError = ErrInvalidXY
  /\ pageLog = <<>>

\* C36: a capability other than wait called before connect has completed
\* fails with "Page not initialized" and does nothing with the page;
\* disconnect closes the browser once if one was connected and does nothing
\* otherwise.
C36_NeedsPage ==
  /\ (bPc # "idle" /\ ~bCall.ready /\ TheCall.name # "wait") =>
       bPc = "ended" /\ bError = ErrNoPage /\ pageLog = <<>>
  /\ bDisc.called =>
       /\ bDisc.closes = (IF bDisc.hadBrowser THEN 1 ELSE 0)
       /\ bDisc.hadBrowser => bConn = "connected"
  /\ ~bDisc.called => bDisc.closes = 0

\* C36 witness: a click called while connect was still under way has failed,
\* and disconnect was called with no browser
C36_Witness ==
  /\ bPc = "ended" /\ ~bCall.ready /\ TheCall.name = "click"
  /\ bError = ErrNoPage
  /\ bDisc.called /\ bDisc.closes = 0


\* ------------------------------------------------------------------------
\* Handler properties: validation, and the step handler's screenshot shortcut
\* ------------------------------------------------------------------------

\* The request lacks what the handler requires: sessionId, and for the start
\* handler userInput.
MissingField == ~body.sessionId \/ (handler = "start" /\ ~body.userInput)

\* C32: validation comes before every external effect: a request without
\* sessionId (or, to the start handler, without userInput) is answered with
\* status 400, and no model request is sent, no browser connection is opened
\* and no action is executed; before validation no handler has done any of it.
C32_ValidationFirst ==
  /\ hPc = "validate" => (sent = <<>> /\ ~connected /\ executed = <<>>)
  /\ (MissingField /\ hPc \notin {"validate", "rest"}) =>
       /\ hPc = "done"
       /\ reply.status = 400
       /\ sent = <<>>
       /\ received = <<>>
       /\ ~connected
       /\ executed = <<>>

\* C32 witness: the step handler has answered a request without sessionId
C32_Witness ==
  /\ handler = "step"
  /\ ~body.sessionId
  /\ hPc = "done"
  /\ reply.status = 400
  /\ sent = <<>>

\* The output has a computer_call, and the earliest one asks for a screenshot.
ScreenshotShortcut(output) ==
  \E i \in 1..Len(output) :
    /\ output[i].type = "computer_call"
    /\ output[i].action = "screenshot"
    /\ \A j \in 1..(i - 1) : output[j].type # "computer_call"

\* C33: the step handler connects the browser and runs takeAction exactly when
\* the first computer_call of the first response is a screenshot: then it
\* executes that response's items once and sends their results in one
\* follow-up request continuing from that response; for any other first
\* response it touches no browser and returns the response unexecuted.
C33_ScreenshotShortcutOnly ==
  handler = "step" =>
    /\ Len(executed) <= 1
    /\ (connected \/ executed # <<>> \/ hPc \in {"connect", "take", "followUp"}) =>
         (received # <<>> /\ ScreenshotShortcut(received[1].output))
    /\ executed # <<>> => (connected /\ executed[1] = received[1].output)
    /\ (received # <<>> /\ ScreenshotShortcut(received[1].output)) =>
         /\ hPc = "reasoning" => (connected /\ executed = <<received[1].output>>)
         /\ reply.status = 200 => (connected /\ executed = <<received[1].output>>)
         /\ Len(sent) >= 2 =>
              /\ executed = <<received[1].output>>
              /\ sent[2].input = TurnOutputs(received[1].output)
              /\ \A k \in 1..Len(sent[2].input) : sent[2].input[k].type # "message"
              /\ sent[2].previous_response_id = received[1].responseId
         /\ \A k \in 3..Len(sent) :
              sent[k].input = <<Text("user", "Please continue with the task.")>>
    /\ (received # <<>> /\ ~ScreenshotShortcut(received[1].output)) =>
         /\ ~connected
         /\ executed = <<>>
         /\ actions = <<>>
         /\ \A k \in 2..Len(sent) :
              sent[k].input = <<Text("user", "Please continue with the task.")>>
         /\ reply.status = 200 => reply.json = <<received[Len(received)]>>

\* C33 witness: the first response was a screenshot call: the step handler
\* has connected, executed it once, sent its result in the second request and
\* returned the answer to that.
C33_Witness ==
  /\ handler = "step"
  /\ hPc = "done"
  /\ reply.status = 200
  /\ Len(received) = 2
  /\ received[1].output[1].action = "screenshot"
  /\ connected
  /\ executed = <<received[1].output>>
  /\ Len(sent) = 2
  /\ sent[2].input = TurnOutputs(received[1].output)
  /\ reply.json = <<received[2]>>

====
